---- MODULE Spec2Model ----
(***************************************************************************)
(* TCG v1 (TPM 1.1/1.2) protocol binding of uefi-rs: Tcg::status_check,    *)
(* the EventLog, its iterator EventLogIter and the packed variable-length  *)
(* record view PcrEvent (uefi/src/proto/tcg/v1.rs).                        *)
(*                                                                         *)
(* A u32 is written as the tuple of its four bytes, most significant       *)
(* first (the order of the hex digits): 0x80000008 is <<128, 0, 0, 8>>.    *)
(* Memory is a sequence of bytes mapped at the addresses                   *)
(* Base .. Base + Len(mem) - 1; address 0 is the null pointer.             *)
(***************************************************************************)
EXTENDS Integers, Sequences, FiniteSets, TLC

VARIABLES
    mem,        \* the firmware-owned bytes of the event log region
    recs,       \* the records the firmware logged into mem (what mem encodes)
    fw_status,  \* the status the firmware returned to the last status_check
    result,     \* what the last Tcg::status_check returned
    log,        \* the EventLog the caller holds, or NoLog
    iters,      \* the EventLogIter values the caller holds
    yielded,    \* per iterator: the record views its next() calls returned
    ret,        \* per iterator: what its last next() call returned
    trapped     \* a read outside the mapped region faulted

vars == <<mem, recs, fw_status, result, log, iters, yielded, ret, trapped>>

(* ------------------------------ bounds -------------------------------- *)

\* the largest number of records in a log
MaxRecords == 2

\* the number of iterators the caller takes from one EventLog
NIter == 2

\* how many reads of unmapped memory one walk may survive before it faults
MaxGarbage == 1

\* the address the log region is mapped at
Base == 64

(* --------------------------- record layout ---------------------------- *)

Null == 0

\* pcr_index (4) + event_type (4) + digest (20) + event_data_size (4)
HeaderSize == 32

\* byte offset of event_data_size: ptr_u32.add(7)
EventSizeOffset == 28

DigestLen == 20

Iters == 1..NIter

(* ------------------------------ memory -------------------------------- *)

\* whether the n bytes at address a lie in the mapped region
Mapped(m, a, n) == a >= Base /\ a + n <= Base + Len(m)

\* the n bytes at address a
ReadBytes(m, a, n) == [k \in 1..n |-> m[a - Base + k]]

\* mutant of read_u32: the bytes taken most significant first
read_u32_big_endian(m, a) ==
    <<m[a - Base + 1], m[a - Base + 2], m[a - Base + 3], m[a - Base + 4]>>

\* a little-endian u32 read (read_unaligned, or a field of the packed
\* struct): the byte at the lowest address is the least significant
read_u32(m, a) == <<m[a - Base + 4], m[a - Base + 3], m[a - Base + 2], m[a - Base + 1]>>

\* usize_from_u32: the value of a u32 as a number (the records considered
\* keep event_data_size below 2^31)
usize_from_u32(v) == v[4] + 256 * v[3] + 65536 * v[2] + 16777216 * v[1]

\* the u32 of a length
u32_from_len(n) == <<0, 0, n \div 256, n % 256>>

\* the bytes of a u32 in memory, least significant first
le_bytes(v) == <<v[4], v[3], v[2], v[1]>>

(* ----------------------------- PcrEvent ------------------------------- *)

\* the bytes of one TCG_PCR_EVENT: repr(C, packed), no padding
EncodeRecord(r) ==
    le_bytes(r.pcr_index) \o le_bytes(r.event_type) \o r.digest
        \o le_bytes(u32_from_len(Len(r.event_data))) \o r.event_data

RECURSIVE EncodeLog(_)
\* consecutive records, the first at the lowest address
EncodeLog(rs) == IF rs = <<>> THEN <<>> ELSE EncodeRecord(Head(rs)) \o EncodeLog(Tail(rs))

\* PcrEvent::from_ptr: the view is a fat pointer, the address and the
\* length of event_data read from the record's own event_data_size field
from_ptr(m, ptr) ==
    [addr |-> ptr, len |-> usize_from_u32(read_u32(m, ptr + EventSizeOffset))]

\* the value an undefined read of event_data_size produces when it does not
\* fault: zero, the smallest, which moves the cursor by the header size alone
GarbageSizes == {0}

\* what from_ptr can produce when it returns: its result when the
\* event_data_size field is mapped; when it is not, the read is undefined
\* and either faults (next_fault) or yields a garbage value
from_ptr_outcomes(m, ptr) ==
    IF Mapped(m, ptr + EventSizeOffset, 4)
    THEN {from_ptr(m, ptr)}
    ELSE {[addr |-> ptr, len |-> g] : g \in GarbageSizes}

\* mutant of size_of_val: the size of a struct that is not packed, rounded
\* up to the alignment of its u32 fields
size_of_val_padded(event) == HeaderSize + 4 * ((event.len + 3) \div 4)

\* mem::size_of_val of a view: the packed header and the slice
size_of_val(event) == HeaderSize + event.len

pcr_index(m, event) == read_u32(m, event.addr)

\* mutant of event_type: the field before it is read
event_type_first_field(m, event) == read_u32(m, event.addr)

event_type(m, event) == read_u32(m, event.addr + 4)

digest(m, event) == ReadBytes(m, event.addr + 8, DigestLen)

event_data(m, event) == ReadBytes(m, event.addr + HeaderSize, event.len)

\* whether every byte a view spans is mapped
ViewMapped(m, event) == Mapped(m, event.addr, size_of_val(event))

(* ------------------------- the logs considered ------------------------ *)

\* the reference TPM dump of tests::test_event_log_v1
bytes ==
    << 0, 0, 0, 0,
       8, 0, 0, 0,
       20, 137, 249, 35, 196, 220, 167, 41, 23, 139,
       62, 50, 51, 69, 133, 80, 216, 221, 223, 41,
       2, 0, 0, 0,
       0, 0,
       0, 0, 0, 0,
       8, 0, 0, 128,
       199, 6, 231, 221, 54, 57, 41, 132, 235, 6,
       170, 160, 143, 243, 54, 132, 64, 119, 179, 237,
       16, 0, 0, 0,
       0, 0, 130, 0, 0, 0, 0, 0,
       0, 0, 14, 0, 0, 0, 0, 0 >>

\* the two entries the test expects: PcrIndex(0), the event type, the
\* digest and the event data
Entry1 ==
    [pcr_index |-> <<0, 0, 0, 0>>,
     event_type |-> <<0, 0, 0, 8>>,
     digest |-> << 20, 137, 249, 35, 196, 220, 167, 41, 23, 139,
                   62, 50, 51, 69, 133, 80, 216, 221, 223, 41 >>,
     event_data |-> <<0, 0>>]

Entry2 ==
    [pcr_index |-> <<0, 0, 0, 0>>,
     event_type |-> <<128, 0, 0, 8>>,
     digest |-> << 199, 6, 231, 221, 54, 57, 41, 132, 235, 6,
                   170, 160, 143, 243, 54, 132, 64, 119, 179, 237 >>,
     event_data |-> << 0, 0, 130, 0, 0, 0, 0, 0,
                       0, 0, 14, 0, 0, 0, 0, 0 >>]

\* a synthetic record: every byte of a field differs from the others, and
\* the payload is empty
Entry3 ==
    [pcr_index |-> <<1, 2, 3, 4>>,
     event_type |-> <<133, 6, 7, 9>>,
     digest |-> [k \in 1..DigestLen |-> 100 + k],
     event_data |-> <<>>]

RecordSet == {Entry1, Entry2, Entry3}

RECURSIVE SeqsUpTo(_, _)
\* the sequences over S of length at most n
SeqsUpTo(S, n) ==
    IF n = 0 THEN {<<>>}
    ELSE LET shorter == SeqsUpTo(S, n - 1)
         IN  shorter \cup {Append(q, x) : q \in shorter, x \in S}

\* the logs the firmware may hold: 1 to MaxRecords records
Logs == SeqsUpTo(RecordSet, MaxRecords) \ {<<>>}

RECURSIVE RecordStart(_, _)
\* the address of the k-th record of rs
RecordStart(rs, k) ==
    IF k = 1 THEN Base
    ELSE RecordStart(rs, k - 1) + HeaderSize + Len(rs[k - 1].event_data)

RecordStarts(rs) == {RecordStart(rs, k) : k \in 1..Len(rs)}

(* ------------------------------ firmware ------------------------------ *)

\* Status codes: success, a warning, two errors
StatusCodes == {"SUCCESS", "WARN_UNKNOWN_GLYPH", "NOT_READY", "DEVICE_ERROR"}

\* Status::is_success
is_success(status) == status = "SUCCESS"

\* From<Status> for Error: the error keeps the status
Error_from(status) == [status |-> status]

\* the BootServiceCapability a firmware with a TPM 1.2 writes
TpmCapability ==
    [size |-> 12,
     structure_version |-> <<1, 1, 0, 0>>,
     protocol_spec_version |-> <<1, 2, 0, 0>>,
     hash_algorithm_bitmap |-> 1,
     tpm_present_flag |-> 1,
     tpm_deactivated_flag |-> 0]

\* what the firmware's status_check may write to its output parameters for
\* a region holding the records rs: any status; a location that is null or
\* a record's address; a last entry that is null, a record's address (before
\* the location too), or an address inside the first record
FirmwareOutputs(rs) ==
    [status : StatusCodes,
     protocol_capability : {TpmCapability},
     feature_flags : {0},
     event_log_location : {Null} \cup RecordStarts(rs),
     event_log_last_entry : {Null, Base + 4} \cup RecordStarts(rs)]

(* ------------------------------ EventLog ------------------------------ *)

\* EventLog::new
EventLog_new(location, last_entry, truncated) ==
    [location |-> location, last_entry |-> last_entry, is_truncated |-> truncated]

\* EventLog::is_truncated
is_truncated(l) == l.is_truncated

\* mutant of v1_truncated
v1_truncated_set == TRUE

\* the value status_check passes for the truncated field
v1_truncated == FALSE

\* mutant of status_check_result: only an error status fails the call, a
\* warning is taken for success
status_check_result_warning_ok(out) ==
    IF out.status \in {"SUCCESS", "WARN_UNKNOWN_GLYPH"}
    THEN [kind |-> "Ok",
          protocol_capability |-> out.protocol_capability,
          feature_flags |-> out.feature_flags,
          event_log |-> <<EventLog_new(out.event_log_location,
                                       out.event_log_last_entry, FALSE)>>]
    ELSE [kind |-> "Err", error |-> Error_from(out.status), event_log |-> <<>>]

\* what Tcg::status_check returns for the firmware's outputs: the result
\* and the EventLog in it (none on failure)
status_check_result(out) ==
    IF is_success(out.status)
    THEN [kind |-> "Ok",
          protocol_capability |-> out.protocol_capability,
          feature_flags |-> out.feature_flags,
          event_log |-> <<EventLog_new(out.event_log_location,
                                       out.event_log_last_entry, v1_truncated)>>]
    ELSE [kind |-> "Err", error |-> Error_from(out.status), event_log |-> <<>>]

(* ---------------------------- EventLogIter ---------------------------- *)

NoIter == [live |-> FALSE, location |-> Null]

\* EventLog::iter
EventLog_iter(l) == [live |-> TRUE, location |-> l.location]

\* mutant of is_exhausted: only the cursor is checked
is_exhausted_cursor_only(location, last_entry) == location = Null

\* the check that opens next(): nothing more to yield
is_exhausted(location, last_entry) == location = Null \/ last_entry = Null

\* mutant of advance: last_entry taken for the end of the log, one past
\* its last record
advance_exclusive_end(location, last_entry, event) ==
    IF location + (HeaderSize + event.len) = last_entry
    THEN Null
    ELSE location + (HeaderSize + event.len)

\* mutant of advance: the cursor is never set to null
advance_never_null(location, last_entry, event) == location + (HeaderSize + event.len)

\* mutant of advance: the cursor is set to null only once it is past
\* last_entry
advance_null_when_past(location, last_entry, event) ==
    IF location > last_entry THEN Null ELSE location + (HeaderSize + event.len)

\* the cursor after next() has built the view `event` at `location`
advance(location, last_entry, event) ==
    IF location = last_entry THEN Null ELSE location + size_of_val(event)

\* mutant of set_location: one cursor shared by the iterators of a log
set_location_shared(its, i, location) ==
    [j \in DOMAIN its |-> IF its[j].live THEN [its[j] EXCEPT !.location = location] ELSE its[j]]

\* self.location = ...: the cursor is a field of the iterator itself
set_location(its, i, location) == [its EXCEPT ![i].location = location]

\* whether the read of event_data_size for the view was of unmapped memory
IsGarbage(m, event) == ~Mapped(m, event.addr + EventSizeOffset, 4)

\* the number of such views in a sequence of views
GarbageCount(m, views) == Cardinality({k \in 1..Len(views) : IsGarbage(m, views[k])})

(* ------------------------------- state -------------------------------- *)

Init ==
    /\ recs \in Logs
    /\ mem \in {EncodeLog(recs)} \cup (IF recs = <<Entry1, Entry2>> THEN {bytes} ELSE {})
    /\ fw_status = "not called"
    /\ result = <<>>
    /\ log = <<>>
    /\ iters = [i \in Iters |-> NoIter]
    /\ yielded = [i \in Iters |-> <<>>]
    /\ ret = [i \in Iters |-> "not called"]
    /\ trapped = FALSE

\* Tcg::status_check: one firmware call; the caller keeps the EventLog of
\* an Ok result. It borrows the protocol mutably, so it is not called
\* while an EventLog of an earlier call is alive.
status_check ==
    /\ ~trapped
    /\ log = <<>>
    /\ \E out \in FirmwareOutputs(recs) :
          LET r == status_check_result(out)
          IN  /\ fw_status' = out.status
              /\ result' = <<r>>
              /\ log' = r.event_log
    /\ UNCHANGED <<mem, recs, iters, yielded, ret, trapped>>

\* tests::test_event_log_v1: an EventLog built over the reference bytes
test_event_log_v1 ==
    /\ ~trapped
    /\ log = <<>>
    /\ result = <<>>
    /\ mem = bytes
    /\ log' = <<EventLog_new(Base, Base + 34, FALSE)>>
    /\ UNCHANGED <<mem, recs, fw_status, result, iters, yielded, ret, trapped>>

\* EventLog::iter: the caller takes one more iterator
iter(i) ==
    /\ ~trapped
    /\ log # <<>>
    /\ ~iters[i].live
    /\ iters' = [iters EXCEPT ![i] = EventLog_iter(log[1])]
    /\ UNCHANGED <<mem, recs, fw_status, result, log, yielded, ret, trapped>>

\* EventLogIter::next, a call that returns
next(i) ==
    /\ ~trapped
    /\ iters[i].live
    /\ LET location == iters[i].location
           last_entry == log[1].last_entry
       IN  IF is_exhausted(location, last_entry)
           THEN /\ ret' = [ret EXCEPT ![i] = "None"]
                /\ UNCHANGED <<iters, yielded>>
           ELSE \E event \in from_ptr_outcomes(mem, location) :
                   /\ IsGarbage(mem, event) => GarbageCount(mem, yielded[i]) < MaxGarbage
                   /\ iters' = set_location(iters, i, advance(location, last_entry, event))
                   /\ yielded' = [yielded EXCEPT ![i] = Append(@, event)]
                   /\ ret' = [ret EXCEPT ![i] = "Some"]
    /\ UNCHANGED <<mem, recs, fw_status, result, log, trapped>>

\* EventLogIter::next, a call whose read of unmapped memory faults
next_fault(i) ==
    /\ ~trapped
    /\ iters[i].live
    /\ ~is_exhausted(iters[i].location, log[1].last_entry)
    /\ ~Mapped(mem, iters[i].location + EventSizeOffset, 4)
    /\ trapped' = TRUE
    /\ UNCHANGED <<mem, recs, fw_status, result, log, iters, yielded, ret>>

Next ==
    \/ status_check
    \/ test_event_log_v1
    \/ \E i \in Iters : iter(i)
    \/ \E i \in Iters : next(i)
    \/ \E i \in Iters : next_fault(i)

Spec == Init /\ [][Next]_vars

\* a walk is a caller's loop over next(): the next call is always made, and
\* it returns or faults
SpecFair == Spec /\ \A i \in Iters : WF_vars(next(i) \/ next_fault(i))

(* --------------------------- shared notions --------------------------- *)

\* whether p is a prefix of q
IsPrefix(p, q) == Len(p) <= Len(q) /\ \A k \in 1..Len(p) : p[k] = q[k]

\* the record a view shows, through the accessors
ViewRecord(m, event) ==
    [pcr_index |-> pcr_index(m, event),
     event_type |-> event_type(m, event),
     digest |-> digest(m, event),
     event_data |-> event_data(m, event)]

\* the EventLog spans the a-th to the b-th record the firmware logged
SpansRecords(l, a, b) ==
    /\ 1 <= a /\ a <= b /\ b <= Len(recs)
    /\ l.location = RecordStart(recs, a)
    /\ l.last_entry = RecordStart(recs, b)

\* the views of the a-th to the b-th record, in storage order
RecordViews(a, b) ==
    [k \in 1..(b - a + 1) |->
        [addr |-> RecordStart(recs, a + k - 1), len |-> Len(recs[a + k - 1].event_data)]]

RECURSIVE Walk(_, _, _, _)
\* what one iterator run alone yields from the cursor `location` on, as long
\* as it reads mapped memory
Walk(m, location, last_entry, fuel) ==
    IF fuel = 0 \/ is_exhausted(location, last_entry)
          \/ ~Mapped(m, location + EventSizeOffset, 4)
    THEN <<>>
    ELSE LET event == from_ptr(m, location)
         IN  <<event>> \o Walk(m, advance(location, last_entry, event), last_entry, fuel - 1)

\* the walk of the whole log
LogWalk(m, l) == Walk(m, l.location, l.last_entry, Len(m) \div HeaderSize + 1)

\* the last entry is a record the walk from location arrives at
ReachesLastEntry(m, l) ==
    LET walk == LogWalk(m, l)
    IN  \E k \in 1..Len(walk) : walk[k].addr = l.last_entry

(* ------------------------------- claims ------------------------------- *)

\* C1: over a log whose location is the a-th and whose last_entry is the
\* b-th of the records in memory, every iterator yields the views of the
\* records a..b in storage order, each showing the record that was encoded
\* there; once its cursor is null or a call has returned None it has yielded
\* all N = b - a + 1 of them, and a call that returns None leaves it so.
\* This holds of every iterator, whenever it was taken.
C1_WalkYieldsTheRecords ==
    /\ [](\A i \in Iters : \A a, b \in 1..Len(recs) :
            (iters[i].live /\ SpansRecords(log[1], a, b)) =>
                /\ IsPrefix(yielded[i], RecordViews(a, b))
                /\ \A k \in 1..Len(yielded[i]) :
                      ViewRecord(mem, yielded[i][k]) = recs[a + k - 1]
                /\ (ret[i] = "None" \/ iters[i].location = Null)
                      => yielded[i] = RecordViews(a, b)
                /\ ret[i] = "not called" => yielded[i] = <<>>)
    /\ [][\A i \in Iters :
            (ret[i] = "None" /\ next(i)) => (ret'[i] = "None" /\ yielded'[i] = yielded[i])]_vars

\* two iterators have both walked a log of MaxRecords records to the end
C1_Witness ==
    /\ log # <<>>
    /\ SpansRecords(log[1], 1, MaxRecords)
    /\ \A i \in Iters : ret[i] = "None" /\ Len(yielded[i]) = MaxRecords

\* C2: while last_entry is null no iterator has yielded a view, and a next()
\* call made with a null last_entry or a null cursor returns None, builds no
\* view and leaves the cursor and the memory as they were.
C2_EmptyLogYieldsNothing ==
    /\ [](\A i \in Iters :
            (iters[i].live /\ log[1].last_entry = Null) =>
                (yielded[i] = <<>> /\ ret[i] # "Some"))
    /\ [][\A i \in Iters :
            (next(i) /\ (iters[i].location = Null \/ log[1].last_entry = Null)) =>
                /\ ret'[i] = "None"
                /\ yielded'[i] = yielded[i]
                /\ iters'[i] = iters[i]
                /\ mem' = mem]_vars

\* next() has returned None over a log with a null last_entry and a
\* non-null location, in a region that holds records
C2_Witness ==
    /\ log # <<>>
    /\ log[1].last_entry = Null
    /\ log[1].location # Null
    /\ \E i \in Iters : iters[i].live /\ ret[i] = "None" /\ yielded[i] = <<>>

C4_FromPtrRoundTrip ==
    \A i \in Iters : \A k \in 1..Len(yielded[i]) : \A j \in 1..Len(recs) :
        LET event == yielded[i][k]
        IN  (mem = EncodeLog(recs) /\ event.addr = RecordStart(recs, j)) =>
                /\ pcr_index(mem, event) = recs[j].pcr_index
                /\ event_type(mem, event) = recs[j].event_type
                /\ digest(mem, event) = recs[j].digest
                /\ event_data(mem, event) = recs[j].event_data
                /\ Len(event_data(mem, event))
                      = usize_from_u32(read_u32(mem, event.addr + EventSizeOffset))

\* views of the synthetic record and of a record with a 16-byte payload
\* have been built
C4_Witness ==
    \E i \in Iters :
        /\ Len(yielded[i]) = 2
        /\ ViewMapped(mem, yielded[i][1])
        /\ ViewMapped(mem, yielded[i][2])
        /\ ViewRecord(mem, yielded[i][1]) = Entry3
        /\ ViewRecord(mem, yielded[i][2]) = Entry2

\* the EventLog of the reference test: the reference bytes, location at
\* the first record, last_entry 34 bytes further
IsReferenceLog ==
    /\ mem = bytes
    /\ log # <<>>
    /\ log[1].location = Base
    /\ log[1].last_entry = Base + 34

\* a walk of the reference log yields two records and then completes: the
\* first has PCR index 0, the event type type1, the first digest and the
\* payload {0, 0}; the second PCR index 0, event type 0x80000008, the second
\* digest and the 16-byte payload
ReferenceWalk(type1) ==
    \A i \in Iters :
        (IsReferenceLog /\ iters[i].live) =>
            /\ Len(yielded[i]) <= 2
            /\ Len(yielded[i]) >= 1 =>
                  /\ yielded[i][1].addr = Base
                  /\ ViewRecord(mem, yielded[i][1]) =
                        [pcr_index |-> <<0, 0, 0, 0>>,
                         event_type |-> type1,
                         digest |-> Entry1.digest,
                         event_data |-> <<0, 0>>]
            /\ Len(yielded[i]) = 2 =>
                  /\ yielded[i][2].addr = Base + 34
                  /\ ViewRecord(mem, yielded[i][2]) =
                        [pcr_index |-> <<0, 0, 0, 0>>,
                         event_type |-> <<128, 0, 0, 8>>,
                         digest |-> Entry2.digest,
                         event_data |-> Entry2.event_data]
                  /\ Len(event_data(mem, yielded[i][2])) = 16
                  /\ is_exhausted(iters[i].location, log[1].last_entry)
            /\ ret[i] = "None" => Len(yielded[i]) = 2
            /\ ret[i] = "Some" => Len(yielded[i]) >= 1

\* C5 as stated: the first record of the reference walk has the event type
\* value 0x08000000.
C5_AsStated == ReferenceWalk(<<8, 0, 0, 0>>)

\* C5, amended: the walk of the reference buffer yields exactly the two
\* records and then completes; the first record's event type value is
\* 0x00000008 (the bytes 08 00 00 00 read little-endian), the second's
\* 0x80000008.
C5_ReferenceWalk == ReferenceWalk(<<0, 0, 0, 8>>)

\* an iterator over the reference log has yielded both records and then
\* returned None
C5_Witness ==
    /\ IsReferenceLog
    /\ \E i \in Iters : ret[i] = "None" /\ Len(yielded[i]) = 2

\* C6: a next() call on one iterator changes nothing but that iterator: the
\* EventLog, the memory and every other iterator's cursor and yield stay as
\* they were; and in any interleaving every iterator yields, from mapped
\* memory, the sequence an iterator run alone yields.
C6_IndependentWalks ==
    /\ [][\A i \in Iters :
            next(i) =>
                /\ log' = log
                /\ mem' = mem
                /\ \A j \in Iters \ {i} :
                      iters'[j] = iters[j] /\ yielded'[j] = yielded[j] /\ ret'[j] = ret[j]]_vars
    /\ [](\A i \in Iters : \A k \in 1..Len(yielded[i]) :
            ~IsGarbage(mem, yielded[i][k]) =>
                /\ k <= Len(LogWalk(mem, log[1]))
                /\ yielded[i][k] = LogWalk(mem, log[1])[k])

\* two iterators over a log of two or more records are at different places
\* of their walks, the slower one past its first record
C6_Witness ==
    \E i, j \in Iters :
        /\ Len(yielded[i]) >= 1
        /\ Len(yielded[j]) > Len(yielded[i])
        /\ iters[i].location # Null
        /\ iters[i].location # iters[j].location

\* C7: the EventLog of a successful status_check is never truncated,
\* whatever the firmware wrote and however far it has been walked.
C7_NeverTruncated ==
    (result # <<>> /\ result[1].kind = "Ok") =>
        /\ log # <<>>
        /\ log = result[1].event_log
        /\ is_truncated(log[1]) = FALSE

\* the log of a successful status_check has been walked to the end
C7_Witness ==
    /\ result # <<>>
    /\ result[1].kind = "Ok"
    /\ \E i \in Iters : ret[i] = "None" /\ yielded[i] # <<>>

\* a next() call ends the walk or moves the cursor forward by the header
\* size or more: it returns None and leaves the cursor, or sets the cursor
\* to null, or advances it by at least HeaderSize
EachCallAdvances ==
    [][\A i \in Iters :
        next(i) =>
            \/ ret'[i] = "None" /\ iters'[i] = iters[i]
            \/ iters'[i].location = Null
            \/ iters'[i].location >= iters[i].location + HeaderSize]_vars

\* C8 as stated: for any EventLog and any memory, each call ends the walk
\* or advances the cursor by 32 bytes or more, and every walk comes to a
\* next() call that returns None.
C8_AsStated ==
    /\ EachCallAdvances
    /\ \A i \in Iters : [](iters[i].live => <>(ret[i] = "None"))

\* C8, amended: for any EventLog and any memory, each call that returns
\* ends the walk or advances the cursor by 32 bytes or more; and every walk
\* of a log whose location or last_entry is null, or whose last_entry is a
\* record the advancement from location arrives at, comes to a next() call
\* that returns None.
C8_WalkTerminates ==
    /\ EachCallAdvances
    /\ \A i \in Iters :
          []((/\ iters[i].live
              /\ \/ is_exhausted(log[1].location, log[1].last_entry)
                 \/ ReachesLastEntry(mem, log[1]))
             => <>(ret[i] = "None"))

\* a walk over MaxRecords records has advanced record by record and has
\* returned None
C8_Witness ==
    \E i \in Iters :
        /\ iters[i].live
        /\ ReachesLastEntry(mem, log[1])
        /\ Len(yielded[i]) = MaxRecords
        /\ ret[i] = "None"

\* no iterator is past last_entry: its cursor is null or at most
\* last_entry, and so is the address of every view it built
NotPastLastEntry(i) ==
    /\ iters[i].location = Null \/ iters[i].location <= log[1].last_entry
    /\ \A k \in 1..Len(yielded[i]) : yielded[i][k].addr <= log[1].last_entry

\* C9 as stated: over an EventLog with non-null location <= last_entry the
\* cursor is always null or at most last_entry.
C9_AsStated ==
    \A i \in Iters :
        (/\ iters[i].live
         /\ log[1].location # Null
         /\ log[1].location <= log[1].last_entry)
        => NotPastLastEntry(i)

\* C9, amended: over an EventLog with non-null location <= last_entry whose
\* last_entry is the address of a record that the advancement from location
\* arrives at, the cursor is always null or at most last_entry, and no view
\* is built beyond last_entry.
C9_NeverPastLastEntry ==
    \A i \in Iters :
        (/\ iters[i].live
         /\ log[1].location # Null
         /\ log[1].location <= log[1].last_entry
         /\ ReachesLastEntry(mem, log[1]))
        => NotPastLastEntry(i)

\* a walk has arrived at a last_entry that lies MaxRecords - 1 records
\* after location, and has not yet yielded it
C9_Witness ==
    \E i \in Iters :
        /\ iters[i].live
        /\ ReachesLastEntry(mem, log[1])
        /\ log[1].location < log[1].last_entry
        /\ iters[i].location = log[1].last_entry
        /\ Len(yielded[i]) = MaxRecords - 1

\* C10: after a call that yielded a record not at last_entry, the cursor is
\* the record's address plus the header size plus the length of its
\* event_data, the length that the record's own event_data_size holds; that
\* is the address of the next record yielded. After the record at
\* last_entry the cursor is null and nothing more is yielded.
C10_CursorFollowsRecordSize ==
    \A i \in Iters : \A k \in 1..Len(yielded[i]) :
        LET event == yielded[i][k]
            after == IF k < Len(yielded[i]) THEN yielded[i][k + 1].addr
                     ELSE iters[i].location
        IN  IF event.addr = log[1].last_entry
            THEN k = Len(yielded[i]) /\ iters[i].location = Null
            ELSE /\ ViewMapped(mem, event) =>
                      after = event.addr + HeaderSize + Len(event_data(mem, event))
                 /\ ~IsGarbage(mem, event) =>
                      after = event.addr + HeaderSize
                                + usize_from_u32(read_u32(mem, event.addr + EventSizeOffset))

\* an iterator has yielded a record with a 2-byte payload and then one with
\* none, and stands after it
C10_Witness ==
    \E i \in Iters :
        /\ Len(yielded[i]) = 2
        /\ yielded[i][1].len = 2
        /\ yielded[i][2].len = 0
        /\ yielded[i][2].addr = yielded[i][1].addr + 34
        /\ yielded[i][2].addr # log[1].last_entry
        /\ iters[i].location = yielded[i][2].addr + 32

====
